---- MODULE Spec2Model ----
(***************************************************************************)
(* Staged-file dispatchers of the repository:                              *)
(*   "nxjs" : scripts/lint-staged-nx.js                                    *)
(*   "mono" : scripts/nx-monorepo-lint-staged.js                           *)
(*   "affected" : the affected-lint script (unnamed/part_015)              *)
(* the file classifiers of the JavaScript, shell and PowerShell variants,  *)
(* and the commit-message validator tools/validate-jira-ticket.js.         *)
(*                                                                         *)
(* Spec is a run of a dispatcher that no signal disturbs, SpecSignal a run *)
(* during which SIGINT or SIGTERM may arrive; SpecClassify and SpecJira    *)
(* apply the pure functions to bounded inputs.                             *)
(*                                                                         *)
(* A path is a sequence of tokens.  A token is either a separator ("/" or  *)
(* "\\") or a maximal run of non-separator characters (a segment), so a    *)
(* well-formed path never holds two segments side by side.  A project name *)
(* is a sequence of tokens as well: the JavaScript capture ([^/]+ on the   *)
(* normalised path) is one segment, the shell's `cut -d/ -f2` may span     *)
(* backslashes; the empty sequence is "no project" (null, "", $null).      *)
(***************************************************************************)
EXTENDS Integers, Sequences, FiniteSets, TLC

VARIABLES
    variant,          \* which dispatcher script runs
    stagedFiles,      \* process.argv.slice(2)
    nxJson,           \* fs.existsSync("nx.json")
    pc,               \* position of the script
    filteredFiles,    \* mono: result of filterLintableFiles
    projectFiles,     \* nxjs: Map project -> files, in insertion order; mono: affectedProjects
    workspaceFiles,   \* nxjs: files of no project
    gi,               \* index of the group the main loop is at
    fi,               \* index of the file the per-file retry is at
    failedFiles,      \* lintFilesDirect: files whose own invocation failed
    overallSuccess,   \* main / lintSpecificProjects: AND of the groups so far
    child,            \* the subprocess in flight, or NoChild
    calls,            \* every subprocess that exited, in order, with its result
    results,          \* one record per group that got a result, in order
    exitCode,         \* process.exit code, or Running
    lastOutcome,      \* how the subprocess that exited last ended
    signal,           \* what became of a SIGINT / SIGTERM sent to the script
    cin,              \* pure functions: the path or commit message handed to them
    cout              \* pure functions: what each of them returned

vars == <<variant, stagedFiles, nxJson, pc, filteredFiles, projectFiles,
          workspaceFiles, gi, fi, failedFiles, overallSuccess, child, calls,
          results, exitCode, lastOutcome, signal, cin, cout>>

dispatchVars == <<variant, stagedFiles, nxJson, pc, filteredFiles, projectFiles,
                  workspaceFiles, gi, fi, failedFiles, overallSuccess, child,
                  calls, results, exitCode, lastOutcome, signal>>

(***************************************************************************)
(* Bounds                                                                  *)
(***************************************************************************)
MaxFiles == 3
MaxPathLen == 5

(***************************************************************************)
(* Paths                                                                   *)
(***************************************************************************)
Slash == "/"
Backslash == "\\"
Separators == {Slash, Backslash}

\* replace(/\\/g, "/") on one token
NormToken(t) == IF t = Backslash THEN Slash ELSE t

\* filePath.replace(/\\/g, "/")
normalizePath(filePath) == [i \in 1..Len(filePath) |-> NormToken(filePath[i])]

\* the same path spelled with backslashes for every separator
WindowsSpelling(p) == [i \in 1..Len(p) |-> IF p[i] \in Separators THEN Backslash ELSE p[i]]

WellFormed(p) ==
    \A i \in 1..(Len(p) - 1) : p[i] \in Separators \/ p[i + 1] \in Separators

NoProject == << >>

\* normalized.match(/^DIR\/([^/]+)/) on a normalised path: the capture, or NoProject
PrefixMatch(normalized, dir) ==
    IF /\ Len(normalized) >= 3
       /\ normalized[1] = dir
       /\ normalized[2] = Slash
       /\ normalized[3] # Slash
    THEN <<normalized[3]>>
    ELSE NoProject

\* lint-staged-nx.js: project name of a file, NoProject for null
getProjectForFile(filePath) ==
    LET normalized == normalizePath(filePath)
        appsMatch == PrefixMatch(normalized, "apps")
        libsMatch == PrefixMatch(normalized, "libs")
    IN  IF appsMatch # NoProject THEN appsMatch
        ELSE IF libsMatch # NoProject THEN libsMatch
        ELSE NoProject

\* nx-monorepo-lint-staged.js: {type, name}
getProjectFromFilePath(filePath) ==
    LET normalizedPath == normalizePath(filePath)
        appMatch == PrefixMatch(normalizedPath, "apps")
        libMatch == PrefixMatch(normalizedPath, "libs")
    IN  IF appMatch # NoProject THEN [type |-> "app", name |-> appMatch]
        ELSE IF libMatch # NoProject THEN [type |-> "lib", name |-> libMatch]
        ELSE [type |-> "root", name |-> NoProject]

\* cut -d'/' -f2 of a line that holds a "/" at position 2: the tokens after it up
\* to the next "/"
RECURSIVE CutField2(_, _)
CutField2(file, i) ==
    IF i > Len(file) \/ file[i] = Slash THEN << >>
    ELSE <<file[i]>> \o CutField2(file, i + 1)

\* lint-staged-nx.sh: [[ "$file" == apps/* ]] ... cut -d'/' -f2, "" for root files
get_project_for_file(file) ==
    IF Len(file) >= 2 /\ file[1] = "apps" /\ file[2] = Slash THEN CutField2(file, 3)
    ELSE IF Len(file) >= 2 /\ file[1] = "libs" /\ file[2] = Slash THEN CutField2(file, 3)
    ELSE NoProject

\* PowerShell's -match ignores case
LowerToken(t) == IF t = "Apps" THEN "apps" ELSE t

\* lint-staged-nx.ps1: $null as NoProject
Get_ProjectForFile(FilePath) ==
    LET normalizedPath == normalizePath(FilePath)
        lowered == [i \in 1..Len(normalizedPath) |-> LowerToken(normalizedPath[i])]
        appsMatch == PrefixMatch(lowered, "apps")
        libsMatch == PrefixMatch(lowered, "libs")
    IN  IF appsMatch # NoProject THEN <<normalizedPath[3]>>
        ELSE IF libsMatch # NoProject THEN <<normalizedPath[3]>>
        ELSE NoProject

(***************************************************************************)
(* The staged files the dispatchers are run on, and the disk               *)
(***************************************************************************)
AppA     == <<"apps", "/", "web", "/", "a.ts">>
AppBWin  == <<"apps", "\\", "web", "\\", "b.ts">>
LibC     == <<"libs", "/", "shared", "/", "c.ts">>
KitK     == <<"libs", "/", "ui-kit", "/", "k.ts">>
KitAbs   == <<"/", "w", "/", "libs", "/", "ui-kit", "/", "k.ts">>
RootD    == <<"scripts", "/", "d.ts">>
Readme   == <<"apps", "/", "web", "/", "r.md">>
Gone     == <<"libs", "/", "shared", "/", "gone.ts">>

StagedUniverse == {AppA, AppBWin, LibC, KitK, KitAbs, RootD, Readme, Gone}

\* fs.existsSync(file): Gone was deleted after staging
FilesOnDisk == StagedUniverse \ {Gone}

existsSync(file) == file \in FilesOnDisk

\* names that end in .ts, .tsx, .js or .jsx
LintableNames == {"a.ts", "b.ts", "c.ts", "d.ts", "k.ts", "gone.ts"}

\* /\.(ts|tsx|js|jsx)$/.test(file)
isLintableFile(file) == Len(file) > 0 /\ file[Len(file)] \in LintableNames

EXCLUDED_LIBRARIES == {"ui-kit"}

\* String.prototype.includes on token sequences
Includes(p, sub) ==
    \E i \in 0..(Len(p) - Len(sub)) : \A j \in 1..Len(sub) : p[i + j] = sub[j]

\* normalizedPath.includes(`/libs/${lib}/`) || normalizedPath.includes(`\\libs\\${lib}\\`)
isExcluded(file) ==
    LET normalizedPath == normalizePath(file)
    IN  \E lib \in EXCLUDED_LIBRARIES :
            \/ Includes(normalizedPath, <<Slash, "libs", Slash, lib, Slash>>)
            \/ Includes(normalizedPath, <<Backslash, "libs", Backslash, lib, Backslash>>)

\* nx-monorepo-lint-staged.js: the predicate of files.filter(...)
KeepFile(file) == ~isExcluded(file) /\ isLintableFile(file) /\ existsSync(file)

filterLintableFiles(files) == SelectSeq(files, KeepFile)

\* index of project in a list of [project, files] entries, 0 when absent
IndexOfProject(groups, project) ==
    IF \E k \in 1..Len(groups) : groups[k].project = project
    THEN CHOOSE k \in 1..Len(groups) : groups[k].project = project
    ELSE 0

\* projectFiles.get(project).push(file), creating the entry at first use
PushFile(groups, project, file) ==
    LET k == IndexOfProject(groups, project)
    IN  IF k = 0 THEN Append(groups, [project |-> project, files |-> <<file>>])
        ELSE [groups EXCEPT ![k].files = Append(@, file)]

\* lint-staged-nx.js: the grouping loop, projectFiles after the first n staged files
RECURSIVE GroupProjectFiles(_, _)
GroupProjectFiles(files, n) ==
    IF n = 0 THEN << >>
    ELSE LET rest == GroupProjectFiles(files, n - 1)
             file == files[n]
             project == getProjectForFile(file)
         IN  IF existsSync(file) /\ project # NoProject
             THEN PushFile(rest, project, file)
             ELSE rest

IsWorkspaceFile(file) == existsSync(file) /\ getProjectForFile(file) = NoProject

\* lint-staged-nx.js: workspaceFiles after the grouping loop
GroupWorkspaceFiles(files) == SelectSeq(files, IsWorkspaceFile)

\* projects.add(project.name) in order of first occurrence (Array.from(Set))
RECURSIVE getAffectedProjectsFromFiles(_, _)
getAffectedProjectsFromFiles(files, n) ==
    IF n = 0 THEN << >>
    ELSE LET rest == getAffectedProjectsFromFiles(files, n - 1)
             project == getProjectFromFilePath(files[n])
         IN  IF /\ project.name # NoProject
                /\ project.name[1] \notin EXCLUDED_LIBRARIES
                /\ \A k \in 1..Len(rest) : rest[k] # project.name
             THEN Append(rest, project.name)
             ELSE rest

\* nx-monorepo-lint-staged.js, lintSpecificProjects: files.filter(name === project)
FilesOfProject(files, project) ==
    LET Belongs(file) == getProjectFromFilePath(file).name = project
    IN  SelectSeq(files, Belongs)

(***************************************************************************)
(* Subprocesses                                                            *)
(***************************************************************************)
Running == -1

NoChild ==
    [cmd |-> "none", project |-> NoProject, files |-> << >>, fix |-> FALSE, at |-> "none"]

\* nx show project <project> --json
ShowProject(project) ==
    [cmd |-> "nx show project", project |-> project, files |-> << >>, fix |-> FALSE,
     at |-> "none"]

\* nx lint <project> --fix [--files=<files>]
NxLint(project, files) ==
    [cmd |-> "nx lint", project |-> project, files |-> files, fix |-> TRUE, at |-> "none"]

\* npx eslint --fix <files>
Eslint(files) ==
    [cmd |-> "eslint", project |-> NoProject, files |-> files, fix |-> TRUE, at |-> "none"]

\* nx --version
NxVersion ==
    [cmd |-> "nx --version", project |-> NoProject, files |-> << >>, fix |-> FALSE,
     at |-> "none"]

\* nx affected:lint --fix --files=<files> --parallel=3 --skip-nx-cache=false
NxAffectedLint(files) ==
    [cmd |-> "nx affected:lint", project |-> NoProject, files |-> files, fix |-> TRUE,
     at |-> "none"]

\* nx show projects --affected --files <files> --json
ShowAffected(files) ==
    [cmd |-> "nx show projects", project |-> NoProject, files |-> files, fix |-> FALSE,
     at |-> "none"]

\* how a lint-target query can end: exit 0 with targets.lint, exit 0 without it,
\* exit 0 with output JSON.parse rejects, a non-zero exit, the command not starting
QueryOutcomes == {"lint", "nolint", "unparsable", "nonzero", "nostart"}

\* how a lint command can end (a non-zero exit and a failed start both give
\* success: false)
LintOutcomes == {"ok", "fail"}

\* projectHasLintTarget: only a parsed answer that holds targets.lint is true
HasLintTarget(outcome) == outcome = "lint"

\* what the script makes of an exited subprocess: for a query the value of
\* projectHasLintTarget ("lint" or "nolint"), for a lint command result.success
\* ("ok" or "fail")
ResultOf(c, outcome) ==
    IF c.cmd = "nx show project"
    THEN (IF HasLintTarget(outcome) THEN "lint" ELSE "nolint")
    ELSE outcome

\* the record of an exited subprocess: its command line, the place of the script
\* that issued it ("query", "native", "batch", "file"; "version", "affected",
\* "projects" in the affected-lint script) and its result
Exited(c, outcome) ==
    [cmd |-> c.cmd, project |-> c.project, files |-> c.files, fix |-> c.fix, at |-> c.at,
     result |-> ResultOf(c, outcome)]

\* process.exit(success ? 0 : 1)
ExitCodeFor(success) == IF success THEN 0 ELSE 1

\* the files of the group the main loop is at
CurFiles ==
    IF gi \in 1..Len(projectFiles) THEN projectFiles[gi].files ELSE workspaceFiles

\* the project of the group the main loop is at
CurProject ==
    IF gi \in 1..Len(projectFiles) THEN projectFiles[gi].project ELSE NoProject

(***************************************************************************)
(* Initial states                                                          *)
(***************************************************************************)
Variants == {"nxjs", "mono", "affected"}

\* every list of at most MaxFiles staged paths
StagedLists == UNION {[1..n -> StagedUniverse] : n \in 0..MaxFiles}

\* no classifier has run yet: the function with the empty domain
NotClassified == << >>

Idle ==
    /\ pc = "start"
    /\ filteredFiles = << >>
    /\ projectFiles = << >>
    /\ workspaceFiles = << >>
    /\ gi = 0
    /\ fi = 0
    /\ failedFiles = << >>
    /\ overallSuccess = TRUE
    /\ child = NoChild
    /\ calls = << >>
    /\ results = << >>
    /\ exitCode = Running
    /\ lastOutcome = "none"
    /\ signal = "none"

Init ==
    /\ variant \in Variants
    /\ stagedFiles \in StagedLists
    /\ nxJson \in BOOLEAN
    /\ Idle
    /\ cin = << >>
    /\ cout = NotClassified

(***************************************************************************)
(* Steps shared by the scripts                                             *)
(***************************************************************************)
Exit_returns(code) ==
    /\ exitCode' = code
    /\ pc' = pc
    /\ child' = NoChild

\* process.exit(code)
Exit(code) ==
    /\ exitCode' = code
    /\ pc' = "done"
    /\ child' = NoChild

\* spawn / execSync of command c; the script then waits for it at position at
Spawn(c, at) ==
    /\ child' = [c EXCEPT !.at = at]
    /\ pc' = at
    /\ exitCode' = exitCode

Reap_notAwaited(outcome) ==
    /\ calls' = calls
    /\ lastOutcome' = outcome

\* the subprocess in flight exits with outcome
Reap(outcome) ==
    /\ calls' = Append(calls, Exited(child, outcome))
    /\ lastOutcome' = outcome

Aggregate_last(all, success) == success

\* the main loop's bookkeeping of one group's result: `if (!success) overallSuccess = false`
Aggregate(all, success) == all /\ success

NextGroup_break(i, success) == IF success THEN i + 1 ELSE Len(projectFiles) + 2

\* the for loop over the groups has no break: after a group, whatever its result,
\* comes the next one
NextGroup(i, success) == i + 1

\* the group the loop is at got its result; the loop goes on to the next group
GroupDone(success) ==
    /\ results' = Append(results, [group |-> CurProject, files |-> CurFiles, success |-> success])
    /\ overallSuccess' = Aggregate(overallSuccess, success)
    /\ gi' = NextGroup(gi, success)
    /\ pc' = "main"
    /\ child' = NoChild
    /\ exitCode' = exitCode

(***************************************************************************)
(* scripts/lint-staged-nx.js                                               *)
(***************************************************************************)
\* top-level code: the empty check and the grouping loop
NxJs_Startup ==
    /\ variant = "nxjs" /\ pc = "start"
    /\ IF Len(stagedFiles) = 0
       THEN /\ Exit(0)
            /\ UNCHANGED <<projectFiles, workspaceFiles, gi>>
       ELSE /\ projectFiles' = GroupProjectFiles(stagedFiles, Len(stagedFiles))
            /\ workspaceFiles' = GroupWorkspaceFiles(stagedFiles)
            /\ gi' = 1
            /\ pc' = "main"
            /\ UNCHANGED <<child, exitCode>>
    /\ UNCHANGED <<variant, stagedFiles, nxJson, filteredFiles, fi, failedFiles,
                   overallSuccess, calls, results, lastOutcome, signal, cin, cout>>

\* main: for (const [project, files] of projectFiles) -> lintProjectFiles ->
\* projectHasLintTarget issues the query
NxJs_lintProjectFiles ==
    /\ variant = "nxjs" /\ pc = "main"
    /\ gi \in 1..Len(projectFiles)
    /\ Spawn(ShowProject(CurProject), "query")
    /\ UNCHANGED <<variant, stagedFiles, nxJson, filteredFiles, projectFiles,
                   workspaceFiles, gi, fi, failedFiles, overallSuccess, calls,
                   results, lastOutcome, signal, cin, cout>>

\* main: if (workspaceFiles.length > 0) lintFilesDirect(workspaceFiles)
NxJs_lintWorkspaceFiles ==
    /\ variant = "nxjs" /\ pc = "main"
    /\ gi = Len(projectFiles) + 1
    /\ Len(workspaceFiles) > 0
    /\ Spawn(Eslint(workspaceFiles), "batch")
    /\ UNCHANGED <<variant, stagedFiles, nxJson, filteredFiles, projectFiles,
                   workspaceFiles, gi, fi, failedFiles, overallSuccess, calls,
                   results, lastOutcome, signal, cin, cout>>

\* main: the final result
NxJs_Exit ==
    /\ variant = "nxjs" /\ pc = "main"
    /\ \/ gi = Len(projectFiles) + 1 /\ Len(workspaceFiles) = 0
       \/ gi = Len(projectFiles) + 2
    /\ Exit(ExitCodeFor(overallSuccess))
    /\ UNCHANGED <<variant, stagedFiles, nxJson, filteredFiles, projectFiles,
                   workspaceFiles, gi, fi, failedFiles, overallSuccess, calls,
                   results, lastOutcome, signal, cin, cout>>

\* lintProjectFiles after the query: nx lint when the project has a lint target,
\* lintFilesDirect otherwise
NxJs_projectHasLintTarget ==
    /\ variant = "nxjs" /\ pc = "query"
    /\ \E outcome \in QueryOutcomes :
        /\ Reap(outcome)
        /\ IF HasLintTarget(outcome)
           THEN Spawn(NxLint(CurProject, CurFiles), "native")
           ELSE Spawn(Eslint(CurFiles), "batch")
    /\ UNCHANGED <<variant, stagedFiles, nxJson, filteredFiles, projectFiles,
                   workspaceFiles, gi, fi, failedFiles, overallSuccess, results,
                   signal, cin, cout>>

Succeeded_never(outcome) == FALSE

\* runCommand: success: code === 0, tested by `if (result.success)`
Succeeded(outcome) == outcome = "ok"

FallbackAfterNxLint_perFile(project, files) == NxLint(project, <<files[1]>>)

\* lintProjectFiles, the else branch after nx lint: "Falling back to direct
\* ESLint...", lintFilesDirect(files) starts with the batch invocation
FallbackAfterNxLint(project, files) == Eslint(files)

\* lintProjectFiles after nx lint: success ends the group, failure falls back
NxJs_NxLintClosed ==
    /\ variant = "nxjs" /\ pc = "native"
    /\ \E outcome \in LintOutcomes :
        /\ Reap(outcome)
        /\ IF Succeeded(outcome)
           THEN GroupDone(TRUE)
           ELSE /\ Spawn(FallbackAfterNxLint(CurProject, CurFiles), "batch")
                /\ UNCHANGED <<results, overallSuccess, gi>>
    /\ UNCHANGED <<variant, stagedFiles, nxJson, filteredFiles, projectFiles,
                   workspaceFiles, fi, failedFiles, signal, cin, cout>>

\* lintFilesDirect after the batch invocation
lintFilesDirect_BatchClosed ==
    /\ variant = "nxjs" /\ pc = "batch"
    /\ \E outcome \in LintOutcomes :
        /\ Reap(outcome)
        /\ IF Succeeded(outcome)
           THEN /\ GroupDone(TRUE)
                /\ UNCHANGED <<fi, failedFiles>>
           ELSE /\ failedFiles' = << >>
                /\ fi' = 1
                /\ Spawn(Eslint(<<CurFiles[1]>>), "file")
                /\ UNCHANGED <<results, overallSuccess, gi>>
    /\ UNCHANGED <<variant, stagedFiles, nxJson, filteredFiles, projectFiles,
                   workspaceFiles, signal, cin, cout>>

RecordFailure_lastOnly(failed, file, outcome) ==
    IF Succeeded(outcome) THEN failed ELSE <<file>>

\* lintFilesDirect: `if (!individualResult.success) failedFiles.push(file)`
RecordFailure(failed, file, outcome) ==
    IF Succeeded(outcome) THEN failed ELSE Append(failed, file)

\* lintFilesDirect: one per-file invocation exited
lintFilesDirect_FileClosed ==
    /\ variant = "nxjs" /\ pc = "file"
    /\ \E outcome \in LintOutcomes :
        LET failed == RecordFailure(failedFiles, CurFiles[fi], outcome)
        IN  /\ Reap(outcome)
            /\ IF fi < Len(CurFiles)
               THEN /\ failedFiles' = failed
                    /\ fi' = fi + 1
                    /\ Spawn(Eslint(<<CurFiles[fi + 1]>>), "file")
                    /\ UNCHANGED <<results, overallSuccess, gi>>
               ELSE /\ failedFiles' = failed
                    /\ fi' = 0
                    /\ GroupDone(Len(failed) = 0)
    /\ UNCHANGED <<variant, stagedFiles, nxJson, filteredFiles, projectFiles,
                   workspaceFiles, signal, cin, cout>>

(***************************************************************************)
(* scripts/nx-monorepo-lint-staged.js                                      *)
(***************************************************************************)
\* top-level code: the empty check, filterLintableFiles, the second empty check
Mono_Startup ==
    /\ variant = "mono" /\ pc = "start"
    /\ IF Len(stagedFiles) = 0
       THEN /\ Exit(0)
            /\ UNCHANGED filteredFiles
       ELSE LET filtered == filterLintableFiles(stagedFiles)
            IN  /\ filteredFiles' = filtered
                /\ IF Len(filtered) = 0
                   THEN Exit(0)
                   ELSE pc' = "entry" /\ UNCHANGED <<child, exitCode>>
    /\ UNCHANGED <<variant, stagedFiles, nxJson, projectFiles, workspaceFiles, gi, fi,
                   failedFiles, overallSuccess, calls, results, lastOutcome, signal, cin, cout>>

\* main: without nx.json, or with no affected project, all filtered files go to
\* lintFilesDirectly; otherwise lintSpecificProjects starts with, for every
\* affected project, the files its line-243 filter selects
Mono_main ==
    /\ variant = "mono" /\ pc = "entry"
    /\ LET affectedProjects == getAffectedProjectsFromFiles(filteredFiles, Len(filteredFiles))
       IN  IF ~nxJson \/ Len(affectedProjects) = 0
           THEN /\ workspaceFiles' = filteredFiles
                /\ projectFiles' = << >>
                /\ Spawn(Eslint(filteredFiles), "batch")
           ELSE /\ projectFiles' =
                       [k \in 1..Len(affectedProjects) |->
                           [project |-> affectedProjects[k],
                            files |-> FilesOfProject(filteredFiles, affectedProjects[k])]]
                /\ workspaceFiles' = << >>
                /\ pc' = "main"
                /\ UNCHANGED <<child, exitCode>>
    /\ gi' = 1
    /\ UNCHANGED <<variant, stagedFiles, nxJson, filteredFiles, fi, failedFiles,
                   overallSuccess, calls, results, lastOutcome, signal, cin, cout>>

\* lintSpecificProjects: for (const project of projects) -> projectHasLintTarget
\* issues the query
Mono_lintSpecificProjects ==
    /\ variant = "mono" /\ pc = "main"
    /\ gi \in 1..Len(projectFiles)
    /\ Spawn(ShowProject(CurProject), "query")
    /\ UNCHANGED <<variant, stagedFiles, nxJson, filteredFiles, projectFiles,
                   workspaceFiles, gi, fi, failedFiles, overallSuccess, calls,
                   results, lastOutcome, signal, cin, cout>>

\* lintSpecificProjects after the query: a project without lint target, or without
\* files, is skipped (continue); otherwise nx lint <project> --fix
Mono_projectHasLintTarget ==
    /\ variant = "mono" /\ pc = "query"
    /\ \E outcome \in QueryOutcomes :
        /\ Reap(outcome)
        /\ IF ~HasLintTarget(outcome) \/ Len(CurFiles) = 0
           THEN /\ gi' = gi + 1
                /\ pc' = "main"
                /\ child' = NoChild
                /\ UNCHANGED exitCode
           ELSE /\ Spawn(NxLint(CurProject, << >>), "native")
                /\ UNCHANGED gi
    /\ UNCHANGED <<variant, stagedFiles, nxJson, filteredFiles, projectFiles,
                   workspaceFiles, fi, failedFiles, overallSuccess, results,
                   signal, cin, cout>>

\* lintSpecificProjects after nx lint: a failure clears overallSuccess
Mono_NxLintClosed ==
    /\ variant = "mono" /\ pc = "native"
    /\ \E outcome \in LintOutcomes :
        /\ Reap(outcome)
        /\ GroupDone(outcome = "ok")
    /\ UNCHANGED <<variant, stagedFiles, nxJson, filteredFiles, projectFiles,
                   workspaceFiles, fi, failedFiles, signal, cin, cout>>

\* main after lintSpecificProjects returned
Mono_Exit ==
    /\ variant = "mono" /\ pc = "main"
    /\ gi > Len(projectFiles)
    /\ Exit(ExitCodeFor(overallSuccess))
    /\ UNCHANGED <<variant, stagedFiles, nxJson, filteredFiles, projectFiles,
                   workspaceFiles, gi, fi, failedFiles, overallSuccess, calls,
                   results, lastOutcome, signal, cin, cout>>

\* lintFilesDirectly: the one eslint invocation closed; main exits with its result
lintFilesDirectly_Closed ==
    /\ variant = "mono" /\ pc = "batch"
    /\ \E outcome \in LintOutcomes :
        /\ Reap(outcome)
        /\ results' = Append(results, [group |-> NoProject, files |-> CurFiles,
                                       success |-> (outcome = "ok")])
        /\ Exit(ExitCodeFor(outcome = "ok"))
    /\ UNCHANGED <<variant, stagedFiles, nxJson, filteredFiles, projectFiles,
                   workspaceFiles, gi, fi, failedFiles, overallSuccess, signal, cin, cout>>

(***************************************************************************)
(* The affected-lint script (unnamed/part_015)                             *)
(***************************************************************************)
\* what `nx show projects --affected --json` may print when it exits with 0: a JSON
\* array of project names (the empty one included); anything that is no array,
\* and empty output, count as the empty array
NxAnswers == {<< >>, <<<<"web">>>>, <<<<"web">>, <<"shared">>>>}

\* top-level code and the head of main: the empty check, then isNxWorkspace issues
\* nx --version
Affected_Startup ==
    /\ variant = "affected" /\ pc = "start"
    /\ IF Len(stagedFiles) = 0
       THEN Exit(0)
       ELSE Spawn(NxVersion, "version")
    /\ UNCHANGED <<variant, stagedFiles, nxJson, filteredFiles, projectFiles,
                   workspaceFiles, gi, fi, failedFiles, overallSuccess, calls,
                   results, lastOutcome, signal, cin, cout>>

\* main after isNxWorkspace: fallbackToEslint(stagedFiles) when nx --version failed,
\* lintWithNxAffected(stagedFiles) otherwise
Affected_isNxWorkspace ==
    /\ variant = "affected" /\ pc = "version"
    /\ \E outcome \in LintOutcomes :
        /\ Reap(outcome)
        /\ IF outcome = "ok"
           THEN /\ Spawn(NxAffectedLint(stagedFiles), "affected")
                /\ UNCHANGED workspaceFiles
           ELSE /\ Spawn(Eslint(stagedFiles), "batch")
                /\ workspaceFiles' = stagedFiles
    /\ UNCHANGED <<variant, stagedFiles, nxJson, filteredFiles, projectFiles, gi, fi,
                   failedFiles, overallSuccess, results, signal, cin, cout>>

\* main after lintWithNxAffected: success exits with 0, failure goes on to
\* getAffectedProjects
Affected_lintWithNxAffected ==
    /\ variant = "affected" /\ pc = "affected"
    /\ \E outcome \in LintOutcomes :
        /\ Reap(outcome)
        /\ IF outcome = "ok"
           THEN Exit(ExitCodeFor(TRUE))
           ELSE Spawn(ShowAffected(stagedFiles), "projects")
    /\ UNCHANGED <<variant, stagedFiles, nxJson, filteredFiles, projectFiles,
                   workspaceFiles, gi, fi, failedFiles, overallSuccess, results,
                   signal, cin, cout>>

\* main after getAffectedProjects: lintAffectedProjects over the projects nx named,
\* each with all the staged files, or fallbackToEslint when it named none
Affected_getAffectedProjects ==
    /\ variant = "affected" /\ pc = "projects"
    /\ \E outcome \in LintOutcomes : \E answer \in NxAnswers :
        LET affectedProjects == IF outcome = "ok" THEN answer ELSE << >>
        IN  /\ Reap(outcome)
            /\ IF Len(affectedProjects) > 0
               THEN /\ projectFiles' =
                           [k \in 1..Len(affectedProjects) |->
                               [project |-> affectedProjects[k], files |-> stagedFiles]]
                    /\ gi' = 1
                    /\ pc' = "main"
                    /\ child' = NoChild
                    /\ UNCHANGED <<workspaceFiles, exitCode>>
               ELSE /\ Spawn(Eslint(stagedFiles), "batch")
                    /\ workspaceFiles' = stagedFiles
                    /\ UNCHANGED <<projectFiles, gi>>
    /\ UNCHANGED <<variant, stagedFiles, nxJson, filteredFiles, fi, failedFiles,
                   overallSuccess, results, signal, cin, cout>>

\* lintAffectedProjects: for (const project of projects) nx lint <project> --fix
\* --files=<all staged files>
Affected_lintAffectedProjects ==
    /\ variant = "affected" /\ pc = "main"
    /\ gi \in 1..Len(projectFiles)
    /\ Spawn(NxLint(CurProject, stagedFiles), "native")
    /\ UNCHANGED <<variant, stagedFiles, nxJson, filteredFiles, projectFiles,
                   workspaceFiles, gi, fi, failedFiles, overallSuccess, calls,
                   results, lastOutcome, signal, cin, cout>>

\* lintAffectedProjects after nx lint: a failure clears overallSuccess
Affected_NxLintClosed ==
    /\ variant = "affected" /\ pc = "native"
    /\ \E outcome \in LintOutcomes :
        /\ Reap(outcome)
        /\ GroupDone(outcome = "ok")
    /\ UNCHANGED <<variant, stagedFiles, nxJson, filteredFiles, projectFiles,
                   workspaceFiles, fi, failedFiles, signal, cin, cout>>

\* main after lintAffectedProjects returned
Affected_Exit ==
    /\ variant = "affected" /\ pc = "main"
    /\ gi > Len(projectFiles)
    /\ Exit(ExitCodeFor(overallSuccess))
    /\ UNCHANGED <<variant, stagedFiles, nxJson, filteredFiles, projectFiles,
                   workspaceFiles, gi, fi, failedFiles, overallSuccess, calls,
                   results, lastOutcome, signal, cin, cout>>

\* fallbackToEslint: the one eslint invocation closed; main exits with its result
fallbackToEslint_Closed ==
    /\ variant = "affected" /\ pc = "batch"
    /\ \E outcome \in LintOutcomes :
        /\ Reap(outcome)
        /\ results' = Append(results, [group |-> NoProject, files |-> stagedFiles,
                                       success |-> (outcome = "ok")])
        /\ Exit(ExitCodeFor(outcome = "ok"))
    /\ UNCHANGED <<variant, stagedFiles, nxJson, filteredFiles, projectFiles,
                   workspaceFiles, gi, fi, failedFiles, overallSuccess, signal, cin, cout>>

Next ==
    \/ NxJs_Startup
    \/ NxJs_lintProjectFiles
    \/ NxJs_lintWorkspaceFiles
    \/ NxJs_Exit
    \/ NxJs_projectHasLintTarget
    \/ NxJs_NxLintClosed
    \/ lintFilesDirect_BatchClosed
    \/ lintFilesDirect_FileClosed
    \/ Mono_Startup
    \/ Mono_main
    \/ Mono_lintSpecificProjects
    \/ Mono_projectHasLintTarget
    \/ Mono_NxLintClosed
    \/ Mono_Exit
    \/ lintFilesDirectly_Closed
    \/ Affected_Startup
    \/ Affected_isNxWorkspace
    \/ Affected_lintWithNxAffected
    \/ Affected_getAffectedProjects
    \/ Affected_lintAffectedProjects
    \/ Affected_NxLintClosed
    \/ Affected_Exit
    \/ fallbackToEslint_Closed

Spec == Init /\ [][Next]_vars

\* every subprocess that was started closes or fails to start, and the script's
\* continuation then runs: no step of the run that can be taken is put off forever
SpecFair == Spec /\ WF_vars(Next)

(***************************************************************************)
(* Signals: the same scripts when SIGINT or SIGTERM is sent to them         *)
(***************************************************************************)
Signals == {"SIGINT", "SIGTERM"}

\* the exit status of a process that its signal's default action terminated
KilledBy(sig) == IF sig = "SIGINT" THEN 128 + 2 ELSE 128 + 15

\* the scripts that call process.on("SIGINT" / "SIGTERM", ...)
HasHandlers == variant \in {"mono", "affected"}

\* the positions where the script waits for a spawned child's close event, so the
\* event loop is free to run a signal handler
AwaitsChild ==
    \/ variant = "affected" /\ pc \in {"version", "affected", "projects", "native", "batch"}
    \/ variant = "mono" /\ pc = "batch"

\* the positions where the script holds the thread: inside execSync, or in the
\* synchronous code between two subprocesses
HoldsThread ==
    \/ variant = "mono" /\ pc \in {"entry", "main", "query", "native"}
    \/ variant = "affected" /\ pc = "main"

\* what becomes of the child in flight when the script ends on a signal: the
\* scripts never call child.kill, so it lives on unless the sender signalled the
\* whole process group
ChildAfterSignal(groupWide) == IF groupWide THEN NoChild ELSE child

\* lint-staged-nx.js installs no handler: the signal's default action ends the
\* process at once, without a word
Signal_NoHandler ==
    /\ variant = "nxjs" /\ pc # "done" /\ signal = "none"
    /\ \E sig \in Signals, groupWide \in BOOLEAN :
        /\ signal' = "default"
        /\ exitCode' = KilledBy(sig)
        /\ pc' = "done"
        /\ child' = ChildAfterSignal(groupWide)
    /\ UNCHANGED <<variant, stagedFiles, nxJson, filteredFiles, projectFiles,
                   workspaceFiles, gi, fi, failedFiles, overallSuccess, calls,
                   results, lastOutcome, cin, cout>>

\* the handlers: printWarning(...), process.exit(1).  They run when the signal
\* arrives while the script awaits a child, or at the first such await after it
Signal_Handler ==
    /\ HasHandlers /\ AwaitsChild /\ signal \in {"none", "pending"}
    /\ \E groupWide \in BOOLEAN :
        /\ signal' = "handled"
        /\ exitCode' = 1
        /\ pc' = "done"
        /\ child' = ChildAfterSignal(groupWide)
    /\ UNCHANGED <<variant, stagedFiles, nxJson, filteredFiles, projectFiles,
                   workspaceFiles, gi, fi, failedFiles, overallSuccess, calls,
                   results, lastOutcome, cin, cout>>

\* a signal that arrives while the script holds the thread: the handler is
\* installed, so nothing ends the process, and it cannot run yet; the script goes on
Signal_Blocked ==
    /\ HasHandlers /\ HoldsThread /\ signal = "none"
    /\ signal' = "pending"
    /\ UNCHANGED <<variant, stagedFiles, nxJson, pc, filteredFiles, projectFiles,
                   workspaceFiles, gi, fi, failedFiles, overallSuccess, child, calls,
                   results, exitCode, lastOutcome, cin, cout>>

NextSignal ==
    \/ Next
    \/ Signal_NoHandler
    \/ Signal_Handler
    \/ Signal_Blocked

SpecSignal == Init /\ [][NextSignal]_vars

(***************************************************************************)
(* The classifiers as pure functions                                       *)
(***************************************************************************)
ClassifierTokens == {Slash, Backslash, "apps", "Apps", "libs", "web", "a.ts"}

ClassifierPaths ==
    {p \in UNION {[1..n -> ClassifierTokens] : n \in 0..MaxPathLen} : WellFormed(p)}

\* the same path spelled with forward slashes for every separator
PosixSpelling(p) == [i \in 1..Len(p) |-> IF p[i] \in Separators THEN Slash ELSE p[i]]

InitClassify ==
    /\ variant = "none"
    /\ stagedFiles = << >>
    /\ nxJson = TRUE
    /\ Idle
    /\ cin \in ClassifierPaths
    /\ cout = NotClassified

\* one classifier is applied to the path as given and to its two spellings
Classify(name, given, posix, windows) ==
    /\ variant = "none"
    /\ name \notin DOMAIN cout
    /\ cout' = (name :> [given |-> given, posix |-> posix, windows |-> windows]) @@ cout
    /\ UNCHANGED <<dispatchVars, cin>>

Classify_getProjectForFile ==
    Classify("nxjs", getProjectForFile(cin), getProjectForFile(PosixSpelling(cin)),
             getProjectForFile(WindowsSpelling(cin)))

Classify_getProjectFromFilePath ==
    Classify("mono", getProjectFromFilePath(cin), getProjectFromFilePath(PosixSpelling(cin)),
             getProjectFromFilePath(WindowsSpelling(cin)))

Classify_get_project_for_file ==
    Classify("sh", get_project_for_file(cin), get_project_for_file(PosixSpelling(cin)),
             get_project_for_file(WindowsSpelling(cin)))

Classify_Get_ProjectForFile ==
    Classify("ps", Get_ProjectForFile(cin), Get_ProjectForFile(PosixSpelling(cin)),
             Get_ProjectForFile(WindowsSpelling(cin)))

NextClassify ==
    \/ Classify_getProjectForFile
    \/ Classify_getProjectFromFilePath
    \/ Classify_get_project_for_file
    \/ Classify_Get_ProjectForFile

SpecClassify == InitClassify /\ [][NextClassify]_vars

(***************************************************************************)
(* tools/validate-jira-ticket.js with its configuration (unnamed/part_010)  *)
(*                                                                         *)
(* A commit message is a sequence of characters (strings of length 1).     *)
(***************************************************************************)
MaxWords == 3

UpperCaseLetters == <<"A", "B", "C", "D", "E", "F", "G", "H", "I", "J", "K", "L", "M", "N",
                     "O", "P", "Q", "R", "S", "T", "U", "V", "W", "X", "Y", "Z">>

LowerCaseLetters == <<"a", "b", "c", "d", "e", "f", "g", "h", "i", "j", "k", "l", "m", "n",
                     "o", "p", "q", "r", "s", "t", "u", "v", "w", "x", "y", "z">>

DigitChars == <<"0", "1", "2", "3", "4", "5", "6", "7", "8", "9">>

\* the place of a character in an alphabet, 0 when it is not in it
IndexIn(alphabet, c) ==
    IF \E i \in 1..Len(alphabet) : alphabet[i] = c
    THEN CHOOSE i \in 1..Len(alphabet) : alphabet[i] = c
    ELSE 0

\* String.prototype.toLowerCase
toLowerCase(str) ==
    [i \in 1..Len(str) |->
        IF IndexIn(UpperCaseLetters, str[i]) > 0
        THEN LowerCaseLetters[IndexIn(UpperCaseLetters, str[i])]
        ELSE str[i]]

\* String.prototype.toUpperCase
toUpperCase(str) ==
    [i \in 1..Len(str) |->
        IF IndexIn(LowerCaseLetters, str[i]) > 0
        THEN UpperCaseLetters[IndexIn(LowerCaseLetters, str[i])]
        ELSE str[i]]

\* \d
IsDigit(c) == IndexIn(DigitChars, c) > 0

DigitValue(c) == IndexIn(DigitChars, c) - 1

\* Number.parseInt on a string of digits
RECURSIVE parseInt(_)
parseInt(str) ==
    IF Len(str) = 0 THEN 0
    ELSE parseInt(SubSeq(str, 1, Len(str) - 1)) * 10 + DigitValue(str[Len(str)])

\* String.prototype.startsWith
startsWith(str, head) == Len(str) >= Len(head) /\ SubSeq(str, 1, Len(head)) = head

\* \s
IsSpace(c) == c = " "

\* String.prototype.trim
trim(str) ==
    LET inked == {i \in 1..Len(str) : ~IsSpace(str[i])}
    IN  IF inked = {} THEN << >>
        ELSE SubSeq(str, CHOOSE i \in inked : \A j \in inked : i <= j,
                         CHOOSE i \in inked : \A j \in inked : i >= j)

\* config.projectPrefixes
projectPrefixes == <<<<"E", "A", "R", "S">>, <<"P", "R", "O", "J">>,
                     <<"D", "E", "V">>, <<"B", "U", "G">>>>

\* config.validation
minTicketNumber == 1

maxTicketNumber == 99999

exemptCommitTypes == {<<"m", "e", "r", "g", "e">>, <<"r", "e", "v", "e", "r", "t">>,
                      <<"i", "n", "i", "t", "i", "a", "l">>}

\* config.customRules
requireColonAfterTicket == TRUE

minMessageLength == 10

\* lowerMessage.startsWith(type) || lowerMessage.includes(`${type}:`)
isCommitTypeExempt(message) ==
    LET lowerMessage == toLowerCase(message)
    IN  \E type \in exemptCommitTypes :
            \/ startsWith(lowerMessage, type)
            \/ Includes(lowerMessage, type \o <<":">>)

\* maxNum.toString().length
RECURSIVE DecimalLength(_)
DecimalLength(n) == IF n < 10 THEN 1 ELSE 1 + DecimalLength(n \div 10)

\* the index of the alternative of (EARS|PROJ|DEV|BUG)- that matches at the start
\* of the message under the i flag, 0 when none does
PrefixMatched(message) ==
    LET Fits(k) == startsWith(toLowerCase(message), toLowerCase(projectPrefixes[k]) \o <<"-">>)
    IN  IF \E k \in 1..Len(projectPrefixes) : Fits(k)
        THEN CHOOSE k \in 1..Len(projectPrefixes) :
                 Fits(k) /\ \A j \in 1..(k - 1) : ~Fits(j)
        ELSE 0

\* the length of the run of digits that starts at position from
DigitRun(message, from) ==
    LET Runs(n) == \A j \in 0..(n - 1) : IsDigit(message[from + j])
    IN  CHOOSE n \in 0..(Len(message) - from + 1) :
            Runs(n) /\ (from + n > Len(message) \/ ~IsDigit(message[from + n]))

Min(a, b) == IF a <= b THEN a ELSE b

\* how many digits the number group of generateJiraPattern's expression takes at
\* position from, 0 when it cannot match there.  The group is
\*   (?:[minNum-9]\d{0,len-1}|[1-9]\d{len-1,len-1})     len = maxNum.toString().length
\* and what follows it, :?\s*(.+), needs one more character, so the greedy \d{0,len-1}
\* gives digits back until one character is left
NumberMatched(message, from) ==
    LET len == DecimalLength(maxTicketNumber)
        run == DigitRun(message, from)
        left == Len(message) - from + 1
        first == IF run > 0 THEN DigitValue(message[from]) ELSE 0
    IN  IF run > 0 /\ first >= minTicketNumber /\ left >= 2
        THEN Min(Min(len, run), left - 1)
        ELSE IF run >= len /\ first >= 1 /\ left >= len + 1
        THEN len
        ELSE 0

\* the first position at or after from that holds no white space, Len + 1 when
\* there is none
SkipSpaces(message, from) ==
    LET inked == {i \in from..Len(message) : ~IsSpace(message[i])}
    IN  IF inked = {} THEN Len(message) + 1
        ELSE CHOOSE i \in inked : \A j \in inked : i <= j

\* what (.+) captures behind :?\s* from position from (from <= Len(message)): the
\* rest behind the colon and the white space; when they reach the end of the
\* message, \s* or else :? gives its last character back
RestMatched(message, from) ==
    LET colon == IF message[from] = ":" THEN from + 1 ELSE from
        text == SkipSpaces(message, colon)
    IN  IF text <= Len(message) THEN SubSeq(message, text, Len(message))
        ELSE <<message[Len(message)]>>

NoMatch == [matched |-> FALSE, project |-> << >>, number |-> << >>, rest |-> << >>]

\* message.match(generateJiraPattern()) with allowMultipleTickets false:
\*   /^(EARS|PROJ|DEV|BUG)-(<number>):?\s*(.+)/i
match(message) ==
    LET k == PrefixMatched(message)
    IN  IF k = 0 THEN NoMatch
        ELSE LET from == Len(projectPrefixes[k]) + 2
                 taken == NumberMatched(message, from)
             IN  IF taken = 0 THEN NoMatch
                 ELSE [matched |-> TRUE,
                       project |-> SubSeq(message, 1, Len(projectPrefixes[k])),
                       number |-> SubSeq(message, from, from + taken - 1),
                       rest |-> RestMatched(message, from + taken)]

\* the error messages of validateJiraTicket, by their rule
RangeErrors(tickets) ==
    IF \E i \in 1..Len(tickets) :
           tickets[i].number < minTicketNumber \/ tickets[i].number > maxTicketNumber
    THEN <<"out of range">> ELSE << >>

LengthErrors(remainingMessage) ==
    IF minMessageLength # 0 /\ Len(remainingMessage) < minMessageLength
    THEN <<"too short">> ELSE << >>

ColonErrors(message) ==
    IF requireColonAfterTicket /\ ~Includes(message, <<":">>)
    THEN <<"no colon">> ELSE << >>

\* validateJiraTicket, the single-ticket branches (allowMultipleTickets is false)
validateJiraTicket(message) ==
    IF isCommitTypeExempt(message)
    THEN [isValid |-> TRUE, tickets |-> << >>, remainingMessage |-> message, errors |-> << >>]
    ELSE LET m == match(message)
         IN  IF ~m.matched
             THEN [isValid |-> FALSE, tickets |-> << >>, remainingMessage |-> << >>,
                   errors |-> <<"no ticket">>]
             ELSE LET tickets == <<[project |-> toUpperCase(m.project),
                                    number |-> parseInt(m.number)]>>
                      remainingMessage == trim(m.rest)
                      errors == RangeErrors(tickets) \o LengthErrors(remainingMessage)
                                    \o ColonErrors(message)
                  IN  [isValid |-> Len(errors) = 0 /\ Len(tickets) > 0,
                       tickets |-> tickets,
                       remainingMessage |-> remainingMessage,
                       errors |-> errors]

\* the commit messages the validator is run on: a ticket-like head or a leading
\* word, then a text of at most MaxWords words
PrefixSpellings == {<<"E", "A", "R", "S">>, <<"e", "a", "r", "s">>, <<"P", "R", "O", "J">>,
                    <<"I", "N", "V", "A", "L", "I", "D">>}

NumberSpellings == {<<"0">>, <<"1">>, <<"1", "2", "3">>, <<"1", "8", "8", "7">>,
                    <<"9", "9", "9", "9", "9">>, <<"1", "0", "0", "0", "0", "0">>, <<"9", "9", "9", "9", "9", "9">>}

TicketEnds == {<<":", " ">>, <<" ">>, <<":">>, << >>}

Words == {<<"f", "i", "x">>, <<"d", "a", "s", "h", "b", "o", "a", "r", "d">>, <<"a", "p", "i", ":">>,
          <<"r", "e", "v", "e", "r", "t", ":">>}

LeadWords == {<<"m", "e", "r", "g", "e">>, <<"R", "e", "v", "e", "r", "t", ":">>, <<"i", "n", "i", "t", "i", "a", "l">>, <<"f", "i", "x">>,
              <<"f", "e", "a", "t", ":">>}

RECURSIVE JoinWords(_)
JoinWords(ws) ==
    IF Len(ws) = 0 THEN << >>
    ELSE IF Len(ws) = 1 THEN ws[1]
    ELSE ws[1] \o <<" ">> \o JoinWords(Tail(ws))

Texts == {JoinWords(ws) : ws \in UNION {[1..n -> Words] : n \in 0..MaxWords}}

TicketMessages ==
    {head \o <<"-">> \o number \o end \o text :
        head \in PrefixSpellings, number \in NumberSpellings, end \in TicketEnds,
        text \in Texts}

PlainMessages == {JoinWords(<<lead, text>>) : lead \in LeadWords, text \in Texts \ {<< >>}}

CommitMessages == TicketMessages \cup PlainMessages

InitJira ==
    /\ variant = "jira"
    /\ stagedFiles = << >>
    /\ nxJson = TRUE
    /\ Idle
    /\ cin \in CommitMessages
    /\ cout = NotClassified

\* a function of the validator is applied to the message
Apply(name, value) ==
    /\ variant = "jira"
    /\ name \notin DOMAIN cout
    /\ cout' = (name :> value) @@ cout
    /\ UNCHANGED <<dispatchVars, cin>>

Apply_validateJiraTicket == Apply("validateJiraTicket", validateJiraTicket(cin))

Apply_isCommitTypeExempt == Apply("isCommitTypeExempt", isCommitTypeExempt(cin))

NextJira ==
    \/ Apply_validateJiraTicket
    \/ Apply_isCommitTypeExempt

SpecJira == InitJira /\ [][NextJira]_vars

(***************************************************************************)
(* What the scripts do with the output of a lint subprocess                 *)
(***************************************************************************)
\* data events per stream of one subprocess
MaxChunks == 2

\* one data event of a subprocess: diag tells whether it holds a file:line:rule
\* message of the lint engine, words holds the words its text includes of those
\* the scripts test for
Diagnostic == [diag |-> TRUE, words |-> {"error"}]
DiagnosticAndWarning == [diag |-> TRUE, words |-> {"error", "warning"}]
DeprecationNotice == [diag |-> FALSE, words |-> {"deprecated"}]
Summary == [diag |-> FALSE, words |-> {}]

Chunks == {Diagnostic, DiagnosticAndWarning, DeprecationNotice, Summary}

ChunkLists == UNION {[1..n -> Chunks] : n \in 0..MaxChunks}

\* output.includes(word)
includesWord(output, word) == word \in output.words

\* the places that run a lint subprocess, by script
LintSites ==
    {<<"nxjs", "native">>, <<"nxjs", "batch">>, <<"nxjs", "file">>,
     <<"mono", "native">>, <<"mono", "batch">>,
     <<"affected", "affected">>, <<"affected", "native">>, <<"affected", "batch">>}

\* a lint subprocess that exited: where it was run, its exit code and the data
\* events of its two streams
Invocations ==
    {[script |-> s[1], site |-> s[2], code |-> code, stdout |-> out, stderr |-> err] :
        s \in LintSites, code \in {0, 1}, out \in ChunkLists, err \in ChunkLists}

\* what reached the user: out and err hold the data events written as they came
\* by process.stdout.write and process.stderr.write, log the ones embedded in a
\* message of the script (printWarning, printError)
Emitted(out, err, log) == [out |-> out, err |-> err, log |-> log]

\* lint-staged-nx.js: runCommand collects both streams and writes nothing;
\* lintProjectFiles puts result.stderr of a failed nx lint in a warning,
\* lintFilesDirect puts individualResult.stderr of a failed per-file eslint in an
\* error, and nothing of a batch
ShownByNxJs(inv) ==
    IF inv.code # 0 /\ inv.site \in {"native", "file"}
    THEN Emitted(<< >>, << >>, inv.stderr)
    ELSE Emitted(<< >>, << >>, << >>)

\* nx-monorepo-lint-staged.js: runCommandSync pipes both streams; lintSpecificProjects
\* prints result.stderr of a failed nx lint with printError
ShownByRunCommandSync(inv) ==
    IF inv.code # 0
    THEN Emitted(<< >>, << >>, inv.stderr)
    ELSE Emitted(<< >>, << >>, << >>)

\* lintFilesDirectly: if (output.includes("error") && !output.includes("warning"))
ShowsActualError(output) ==
    includesWord(output, "error") /\ ~includesWord(output, "warning")

\* nx-monorepo-lint-staged.js lintFilesDirectly: stdout is written as it comes,
\* stderr only where it shows an actual error
ShownByLintFilesDirectly(inv) ==
    Emitted(inv.stdout, SelectSeq(inv.stderr, ShowsActualError), << >>)

\* runCommand of the affected-lint script:
\* if (!output.includes("warning") && !output.includes("deprecated"))
NotJustWarnings(output) ==
    ~includesWord(output, "warning") /\ ~includesWord(output, "deprecated")

\* the affected-lint script: runCommand writes stdout as it comes and stderr where
\* it is not just warnings; its callers print nothing of the output
ShownByAffected(inv) ==
    Emitted(inv.stdout, SelectSeq(inv.stderr, NotJustWarnings), << >>)

InitOutput ==
    /\ variant = "output"
    /\ stagedFiles = << >>
    /\ nxJson = TRUE
    /\ Idle
    /\ cin \in Invocations
    /\ cout = NotClassified

\* the subprocess closed and the script has written what it writes of its output
Show(script, sites, shown) ==
    /\ variant = "output"
    /\ cin.script = script /\ cin.site \in sites
    /\ "shown" \notin DOMAIN cout
    /\ cout' = ("shown" :> shown) @@ cout
    /\ UNCHANGED <<dispatchVars, cin>>

NxJs_runCommand_Closed == Show("nxjs", {"native", "batch", "file"}, ShownByNxJs(cin))

Mono_runCommandSync_Closed == Show("mono", {"native"}, ShownByRunCommandSync(cin))

Mono_lintFilesDirectly_Closed == Show("mono", {"batch"}, ShownByLintFilesDirectly(cin))

Affected_runCommand_Closed ==
    Show("affected", {"affected", "native", "batch"}, ShownByAffected(cin))

NextOutput ==
    \/ NxJs_runCommand_Closed
    \/ Mono_runCommandSync_Closed
    \/ Mono_lintFilesDirectly_Closed
    \/ Affected_runCommand_Closed

SpecOutput == InitOutput /\ [][NextOutput]_vars

(***************************************************************************)
(* Notions the properties are stated in                                    *)
(***************************************************************************)
Range(seq) == {seq[i] : i \in 1..Len(seq)}

Done == pc = "done"

\* the file lies under an excluded project: libs/<excluded>/ at the start of the
\* path or after any separator
UnderExcludedProject(file) ==
    \E lib \in EXCLUDED_LIBRARIES :
        Includes(<<Slash>> \o normalizePath(file), <<Slash, "libs", Slash, lib, Slash>>)

\* the file passes the filters the running script applies to its input
Accepted(file) ==
    CASE variant = "mono" -> KeepFile(file)
      [] variant = "nxjs" -> existsSync(file)
      [] OTHER -> TRUE

\* the groups are built: the script is past its grouping code
Grouped == pc \notin {"start", "entry"}

\* the file sets of the groups: one per project, and the workspace-root group
GroupFileSets ==
    [k \in 1..(Len(projectFiles) + 1) |->
        IF k <= Len(projectFiles) THEN Range(projectFiles[k].files)
        ELSE Range(workspaceFiles)]

GroupsHolding(file) == {k \in DOMAIN GroupFileSets : file \in GroupFileSets[k]}

\* the lint invocations (nx lint, eslint) that exited
IsLint(c) == c.cmd \in {"nx lint", "nx affected:lint", "eslint"}

\* an exited invocation covers a file: it names the file, or it is a project lint
\* without file scope of the project the file is classified to
Covers(c, file) ==
    /\ IsLint(c)
    /\ \/ file \in Range(c.files)
       \/ c.cmd = "nx lint" /\ c.files = << >> /\ c.project # NoProject
             /\ getProjectFromFilePath(file).name = c.project

(***************************************************************************)
(* Properties                                                              *)
(***************************************************************************)
\* C1: the groups partition the accepted files: every staged path that passes the
\* script's filters is in exactly one group, and no group holds a path that was
\* filtered out
C1_GroupsPartitionAccepted ==
    Grouped =>
        /\ \A file \in Range(stagedFiles) :
               Accepted(file) => Cardinality(GroupsHolding(file)) = 1
        /\ \A k \in DOMAIN GroupFileSets : \A file \in GroupFileSets[k] :
               file \in Range(stagedFiles) /\ Accepted(file)

\* a project group has come to its end: it has a result, or (mono) its query
\* reported no lint target and the loop went past it
Concluded(k) ==
    \/ \E i \in 1..Len(results) : results[i].group = projectFiles[k].project
    \/ /\ variant = "mono"
       /\ \E i \in 1..Len(calls) :
              /\ calls[i].cmd = "nx show project"
              /\ calls[i].project = projectFiles[k].project
              /\ calls[i].result = "nolint"

\* the loop came to project group k: its first subprocess (the lint-target query, or
\* nx lint in the script that asks no query) was issued and exited
Visited(k) ==
    \E i \in 1..Len(calls) :
        /\ calls[i].cmd \in {"nx show project", "nx lint"}
        /\ calls[i].project = projectFiles[k].project

\* C2: a group's failure never stops the run: when the script exits after a group
\* failed, every project group was still visited and brought to its end, the
\* workspace-root group has its result, and the exit code is not 0
C2_GroupFailureDoesNotStopRun ==
    (Done /\ \E i \in 1..Len(results) : ~results[i].success) =>
        /\ \A k \in 1..Len(projectFiles) : Visited(k) /\ Concluded(k)
        /\ Len(workspaceFiles) > 0 =>
               \E i \in 1..Len(results) : results[i].group = NoProject
        /\ exitCode # 0

\* C2 witness: a run ended in which the first group failed and a later group was
\* linted successfully by its own invocations
C2_Witness ==
    /\ Done
    /\ Len(results) >= 2
    /\ ~results[1].success
    /\ results[Len(results)].success
    /\ calls[Len(calls)].result = "ok"
    /\ exitCode = 1

\* C3: the exit code is 0 exactly when every group's result is success (also when
\* there is no group), 1 exactly when some group failed, and nothing else
C3_ExitCodeIsConjunction ==
    Done =>
        /\ exitCode \in {0, 1}
        /\ exitCode = 0 <=> \A i \in 1..Len(results) : results[i].success
        /\ exitCode = 1 <=> \E i \in 1..Len(results) : ~results[i].success

\* C3 witness: a run of several groups ended with code 1 although its last group
\* succeeded
C3_Witness ==
    /\ Done
    /\ Len(results) >= 2
    /\ ~results[1].success
    /\ results[Len(results)].success
    /\ exitCode = 1
    /\ overallSuccess = FALSE

\* the files of the group of a project
FilesOfGroup(project) == projectFiles[IndexOfProject(projectFiles, project)].files

\* the lint-target query of a project has just exited and reported no lint target
QueryReportedNoLintTarget ==
    /\ Len(calls) > 0
    /\ calls[Len(calls)].cmd = "nx show project"
    /\ lastOutcome = "nolint"

\* C4: when the lint-target query of a project reports no lint target, the script
\* goes on with eslint --fix on the files of that project's group, and no nx lint
\* is ever issued for a project whose query gave no lint target
C4_NoLintTargetGoesToEngine ==
    /\ QueryReportedNoLintTarget =>
           /\ child.cmd = "eslint"
           /\ child.files = FilesOfGroup(calls[Len(calls)].project)
    /\ \A i \in 1..Len(calls) :
           (calls[i].cmd = "nx show project" /\ calls[i].result = "nolint") =>
               /\ child.cmd = "nx lint" => child.project # calls[i].project
               /\ \A j \in 1..Len(calls) :
                      calls[j].cmd = "nx lint" => calls[j].project # calls[i].project

\* C5: after a failed batch engine invocation on n >= 2 files the script issues exactly
\* n engine invocations, one per file of the group in order, before the group's
\* result; no per-file failure cuts them short
C5_BatchFailureRetriesEveryFile ==
    Done =>
        \A i \in 1..Len(calls) :
            (calls[i].at = "batch" /\ Len(calls[i].files) >= 2 /\ calls[i].result = "fail") =>
                LET n == Len(calls[i].files)
                IN  /\ Len(calls) >= i + n
                    /\ \A j \in 1..n :
                           /\ calls[i + j].at = "file"
                           /\ calls[i + j].files = <<calls[i].files[j]>>
                    /\ Len(calls) > i + n => calls[i + n + 1].at # "file"

\* a repository-relative path under an excluded project: libs/<excluded>/...
RelativeExcluded(file) ==
    /\ Len(file) >= 4
    /\ file[1] = "libs" /\ file[2] \in Separators
    /\ file[3] \in EXCLUDED_LIBRARIES /\ file[4] \in Separators

\* C6: the script with an exclusion list never puts a repository-relative file of
\* an excluded project in a group and never names it in a subprocess, in flight or
\* exited
C6_ExcludedNeverDispatched ==
    variant = "mono" =>
        \A file \in Range(stagedFiles) :
            RelativeExcluded(file) =>
                /\ GroupsHolding(file) = {}
                /\ file \notin Range(child.files)
                /\ \A i \in 1..Len(calls) : file \notin Range(calls[i].files)

\* the script's filters, as the spec lists them, leave nothing of the input: every
\* path is missing on disk, or (for the script that filters extensions and
\* excluded projects) has no lintable extension or lies under an excluded project
AllFilteredOut ==
    \A file \in Range(stagedFiles) :
        \/ ~existsSync(file)
        \/ variant = "mono" /\ (~isLintableFile(file) \/ UnderExcludedProject(file))

\* C7: with an empty input, or an input of which every path is filtered out, no
\* subprocess is ever issued and the script exits with code 0
C7_NothingToLintNoSubprocess ==
    AllFilteredOut =>
        /\ child = NoChild
        /\ calls = << >>
        /\ Done => exitCode = 0

\* C10: when the script exits with code 0, every accepted staged file was covered
\* by at least one lint invocation that exited successfully
C10_SuccessMeansLinted ==
    (Done /\ exitCode = 0) =>
        \A file \in Range(stagedFiles) :
            Accepted(file) =>
                \E i \in 1..Len(calls) : Covers(calls[i], file) /\ calls[i].result = "ok"

\* C8: every classifier gives the Windows spelling and the POSIX spelling of a
\* path the same project
C8_SeparatorInvariance ==
    \A name \in DOMAIN cout : cout[name].windows = cout[name].posix

\* the classification the spec describes, on the normalised path: apps/<name>/
\* is application <name>, otherwise libs/<name>/ is library <name>, otherwise
\* workspace-root
SpecifiedProject(file) ==
    LET n == normalizePath(file)
        Under(dir) == /\ Len(n) >= 4
                      /\ n[1] = dir /\ n[2] = Slash /\ n[3] # Slash /\ n[4] = Slash
    IN  IF Under("apps") THEN [type |-> "app", name |-> <<n[3]>>]
        ELSE IF Under("libs") THEN [type |-> "lib", name |-> <<n[3]>>]
        ELSE [type |-> "root", name |-> NoProject]

\* C9: getProjectFromFilePath maps every path to the project reference the spec
\* describes: application under apps/<name>/, library under libs/<name>/,
\* workspace-root for every other path
C9_ClassificationAsSpecified ==
    "mono" \in DOMAIN cout => cout["mono"].given = SpecifiedProject(cin)

\* the commands of the monorepo tool
NxCommands ==
    {"nx show project", "nx lint", "nx --version", "nx affected:lint", "nx show projects"}

IsNx(c) == c.cmd \in NxCommands

\* the staged files that pass the running script's filters, in input order
AcceptedFiles == SelectSeq(stagedFiles, Accepted)

\* C11: without nx.json no nx command of any kind is ever issued, in flight or
\* exited, and a run that had accepted files ends after exactly one eslint
\* invocation on all of them, whose result is the exit code
C11_NoManifestGoesStraightToEngine ==
    ~nxJson =>
        /\ ~IsNx(child)
        /\ \A i \in 1..Len(calls) : ~IsNx(calls[i])
        /\ (Done /\ Len(AcceptedFiles) > 0) =>
               /\ Len(calls) = 1
               /\ calls[1].cmd = "eslint"
               /\ calls[1].files = AcceptedFiles
               /\ exitCode = ExitCodeFor(calls[1].result = "ok")

\* the lint-target query of a project has just exited and the tool was unavailable:
\* nx did not start, exited non-zero, or printed what JSON.parse rejects
QueryFoundToolUnavailable ==
    /\ Len(calls) > 0
    /\ calls[Len(calls)].cmd = "nx show project"
    /\ lastOutcome \in {"nostart", "nonzero", "unparsable"}

\* the result of the direct engine strategy that starts with the batch invocation
\* calls[j]: the batch succeeded, or each of the per-file invocations after it did
EngineSucceeded(j) ==
    \/ calls[j].result = "ok"
    \/ LET n == Len(calls[j].files)
       IN  /\ Len(calls) >= j + n
           /\ \A k \in 1..n : calls[j + k].at = "file" /\ calls[j + k].result = "ok"

\* C12: when the lint-target query finds the tool unavailable the script neither
\* exits nor skips the group: eslint --fix on the files of that project's group is
\* in flight next; and a project group whose query gave no usable lint target has
\* a result, which is the result of the direct engine on its files
C12_UnavailableToolGoesToEngine ==
    /\ QueryFoundToolUnavailable =>
           /\ ~Done
           /\ child.cmd = "eslint"
           /\ child.files = FilesOfGroup(calls[Len(calls)].project)
    /\ Done =>
           \A i \in 1..Len(calls) :
               (calls[i].cmd = "nx show project" /\ calls[i].result = "nolint") =>
                   \E r \in 1..Len(results) :
                       /\ results[r].group = calls[i].project
                       /\ i < Len(calls)
                       /\ calls[i + 1].cmd = "eslint"
                       /\ calls[i + 1].files = results[r].files
                       /\ results[r].success <=> EngineSucceeded(i + 1)

\* the native project lints, in flight or exited
NativeLints ==
    {c \in {child} \cup Range(calls) : c.cmd = "nx lint"}

\* the accepted staged files classified to a project
AcceptedOfProject(project) ==
    {file \in Range(stagedFiles) : Accepted(file) /\ getProjectForFile(file) = project}

\* C13: every nx lint <project> carries --fix and a file list that holds exactly
\* the accepted staged files classified to that project
C13_NativeLintScopedToGroup ==
    \A c \in NativeLints :
        /\ c.fix
        /\ Range(c.files) = AcceptedOfProject(c.project)

\* the subprocess issued right after the exited subprocess calls[i]: the next one
\* that exited, or the one in flight
IssuedAfter(i) == IF i < Len(calls) THEN calls[i + 1] ELSE child

C15_SignalAborts ==
    signal # "none" => (signal = "handled" /\ Done /\ exitCode # 0)

\* C16: the script never exits while a subprocess it started is still running
C16_NoOrphanedSubprocess ==
    Done => child = NoChild

\* validateJiraTicket was applied to the message
Validated == variant = "jira" /\ "validateJiraTicket" \in DOMAIN cout

\* the message starts with a configured prefix spelled in lowercase, a dash and a
\* digit, like ears-1887
LowercasePrefixTicket(message) ==
    \E k \in 1..Len(projectPrefixes) :
        /\ startsWith(message, toLowerCase(projectPrefixes[k]) \o <<"-">>)
        /\ Len(message) >= Len(projectPrefixes[k]) + 2
        /\ IsDigit(message[Len(projectPrefixes[k]) + 2])

\* C18: a message whose ticket prefix is written in lowercase, and which is not of
\* an exempt commit type, is invalid, whatever text follows the ticket
C18_LowercasePrefixRejected ==
    (Validated /\ LowercasePrefixTicket(cin) /\ ~isCommitTypeExempt(cin)) =>
        ~cout["validateJiraTicket"].isValid

\* the message starts with a configured prefix as configured (uppercase) and a dash
UppercasePrefix(message) ==
    \E k \in 1..Len(projectPrefixes) : startsWith(message, projectPrefixes[k] \o <<"-">>)

\* the ticket number as written in the message: the whole run of digits behind
\* the dash
WrittenNumber(message) ==
    LET k == PrefixMatched(message)
        from == Len(projectPrefixes[k]) + 2
    IN  SubSeq(message, from, from + DigitRun(message, from) - 1)

OutOfRange(number) == number < minTicketNumber \/ number > maxTicketNumber

\* C19: a message whose ticket number, as written, lies outside
\* [minTicketNumber, maxTicketNumber] is invalid whatever text follows, and the
\* errors reported are those of the number (no ticket matched, or out of range),
\* not of another rule
C19_OutOfRangeRejectedForNumber ==
    (/\ Validated
     /\ UppercasePrefix(cin)
     /\ Len(WrittenNumber(cin)) > 0
     /\ OutOfRange(parseInt(WrittenNumber(cin)))
     /\ ~isCommitTypeExempt(cin)) =>
        /\ ~cout["validateJiraTicket"].isValid
        /\ Range(cout["validateJiraTicket"].errors) \subseteq {"no ticket", "out of range"}

\* the message is a valid ticket (configured prefix, number in range written
\* without leading zero), one space, and a description of at least
\* minMessageLength characters: no colon behind the ticket
TicketSpaceDescription(message) ==
    /\ UppercasePrefix(message)
    /\ LET number == WrittenNumber(message)
           behind == Len(projectPrefixes[PrefixMatched(message)]) + 2 + Len(number)
       IN  /\ Len(number) > 0
           /\ number[1] # "0"
           /\ ~OutOfRange(parseInt(number))
           /\ Len(message) > behind
           /\ message[behind] = " "
           /\ ~IsSpace(message[behind + 1])
           /\ Len(message) - behind >= minMessageLength

\* C20: a message made of a valid ticket, a space and a description of at least the
\* minimum length, not of an exempt commit type, is valid although no colon
\* follows the ticket
C20_TicketWithoutColonAccepted ==
    (Validated /\ TicketSpaceDescription(cin) /\ ~isCommitTypeExempt(cin)) =>
        cout["validateJiraTicket"].isValid

\* isCommitTypeExempt was applied to the message
ExemptionAsked == variant = "jira" /\ "isCommitTypeExempt" \in DOMAIN cout

\* the type of the commit, the first word of its message, is feat or fix
OtherCommitType(message) ==
    \/ startsWith(message, <<"f", "e", "a", "t", ":">>)
    \/ startsWith(message, <<"f", "i", "x", ":">>)

\* the type of the commit is one of the exempt ones, in any spelling of case
ExemptCommitType(message) ==
    \E type \in exemptCommitTypes : startsWith(toLowerCase(message), type)

\* C21: the exemption follows the type of the commit only: a message of an exempt
\* type is valid without a ticket, and isCommitTypeExempt is false for a message of
\* type feat or fix whatever words come later in it
C21_ExemptionFollowsTypeOnly ==
    /\ (Validated /\ ExemptCommitType(cin)) => cout["validateJiraTicket"].isValid
    /\ (ExemptionAsked /\ OtherCommitType(cin)) => ~cout["isCommitTypeExempt"]

\* the subprocesses issued after the exited subprocess calls[i]
IssuedLater(i) == {calls[j] : j \in (i + 1)..Len(calls)} \cup ({child} \ {NoChild})

\* C22: the strategies of a group stop at the first success: after a successful
\* nx lint of a project no eslint is ever issued on a file of that project's group,
\* and after a successful batch eslint no per-file eslint is ever issued on a file
\* of that batch
C22_StopAtFirstSuccess ==
    \A i \in 1..Len(calls) :
        /\ (calls[i].cmd = "nx lint" /\ calls[i].result = "ok") =>
               \A c \in IssuedLater(i) :
                   c.cmd = "eslint" =>
                       Range(c.files) \cap Range(FilesOfGroup(calls[i].project)) = {}
        /\ (calls[i].at = "batch" /\ calls[i].result = "ok") =>
               \A c \in IssuedLater(i) :
                   c.at = "file" => Range(c.files) \cap Range(calls[i].files) = {}

\* C22 witness: a run of lint-staged-nx.js ended in which the nx lint of a group of
\* two files succeeded and the batch eslint of another group succeeded
C22_Witness ==
    /\ Done
    /\ variant = "nxjs"
    /\ \E i \in 1..Len(calls) :
           calls[i].cmd = "nx lint" /\ calls[i].result = "ok" /\ Len(calls[i].files) = 2
    /\ \E i \in 1..Len(calls) : calls[i].at = "batch" /\ calls[i].result = "ok"

\* a subprocess is started in this step
Starts == child' # NoChild /\ child' # child

\* the subprocess that was in flight exited in this step
Exits == Len(calls') = Len(calls) + 1 /\ calls'[Len(calls')].cmd = child.cmd

\* every group has come to its end
AllGroupsConcluded ==
    /\ \A k \in 1..Len(projectFiles) : Concluded(k)
    /\ Len(workspaceFiles) > 0 =>
           \E i \in 1..Len(results) : results[i].group = NoProject

\* the workspace-root group is being linted or has its result
AtWorkspaceRoot ==
    \/ child.cmd = "eslint" /\ child.files # << >> /\ gi \notin 1..Len(projectFiles)
    \/ \E i \in 1..Len(results) : results[i].group = NoProject

\* C23, the states: the workspace-root group is reached only after every project
\* group has come to its end, and the script exits only when no subprocess is in
\* flight and every group has come to its end
C23_GroupsInOrder ==
    /\ AtWorkspaceRoot => \A k \in 1..Len(projectFiles) : Concluded(k)
    /\ Done => (child = NoChild /\ AllGroupsConcluded)

\* C23: subprocesses run strictly one after the other, a subprocess is started only
\* when none is in flight or the one in flight exited in the same step; project
\* groups come before the workspace-root group; the exit comes after the last group
C23_OneAtATime ==
    /\ [](C23_GroupsInOrder)
    /\ [][Starts => (child = NoChild \/ Exits)]_vars

\* C23 witness: a run over two project groups and the workspace-root group ended,
\* each group with its result, after at least five subprocesses
C23_Witness ==
    /\ Done
    /\ Len(projectFiles) = 2
    /\ Len(workspaceFiles) > 0
    /\ Len(results) = 3
    /\ results[3].group = NoProject
    /\ Len(calls) >= 5

\* the file is classified as a workspace-root file: under no apps/ or libs/ project
WorkspaceRoot(file) == getProjectForFile(file) = NoProject

\* the lint-target queries issued so far, in flight or exited
LintTargetQueries ==
    {c \in {child} \cup Range(calls) : c.cmd = "nx show project"}

\* no lint-target query and no nx lint names the workspace root or carries a
\* workspace-root file
C24_NativeSkipsWorkspaceRoot ==
    \A c \in LintTargetQueries \cup NativeLints :
        /\ c.project # NoProject
        /\ \A file \in Range(c.files) : ~WorkspaceRoot(file)

\* when the script has exited, every accepted workspace-root file was named to eslint
C24_WorkspaceRootGoesToEngine ==
    Done =>
        \A file \in Range(AcceptedFiles) :
            WorkspaceRoot(file) =>
                \E i \in 1..Len(calls) :
                    calls[i].cmd = "eslint" /\ file \in Range(calls[i].files)

\* C24: workspace-root files skip the native strategy: no lint-target query and no
\* nx lint is issued for, or carries in its file list, a workspace-root file, and
\* such files are linted by eslint directly
C24_WorkspaceRootSkipsNative ==
    /\ C24_NativeSkipsWorkspaceRoot
    /\ C24_WorkspaceRootGoesToEngine

\* the direct-engine strategy has just returned: its last eslint exited and no
\* subprocess has been started since
EngineReturned ==
    /\ child = NoChild
    /\ Len(calls) > 0 /\ calls[Len(calls)].cmd = "eslint"
    /\ Len(results) > 0

\* the batch invocation of the direct-engine run that ended last
LastBatch ==
    CHOOSE j \in 1..Len(calls) :
        /\ calls[j].at = "batch"
        /\ \A k \in (j + 1)..Len(calls) : calls[k].at # "batch"

\* the per-file invocations of the direct-engine run that ended last
PerFileCalls == {calls[k] : k \in (LastBatch + 1)..Len(calls)}

\* every file of the batch had its own invocation, and each of them succeeded
EveryFileSucceeded ==
    LET files == calls[LastBatch].files
    IN  /\ Len(calls) = LastBatch + Len(files)
        /\ \A m \in 1..Len(files) :
               /\ calls[LastBatch + m].at = "file"
               /\ calls[LastBatch + m].files = <<files[m]>>
               /\ calls[LastBatch + m].result = "ok"

\* C25: when the direct-engine strategy returns, its result is success exactly when
\* the batch invocation succeeded or, the batch having failed, every file had its
\* own invocation and each succeeded; after a failed batch the files it reports as
\* failed are exactly the files whose own invocation failed
C25_EngineResultAndFailedSet ==
    EngineReturned =>
        /\ results[Len(results)].success <=>
               \/ calls[LastBatch].result = "ok"
               \/ calls[LastBatch].result = "fail" /\ EveryFileSucceeded
        /\ calls[LastBatch].result = "fail" =>
               Range(failedFiles) =
                   {c.files[1] : c \in {d \in PerFileCalls : d.at = "file" /\ d.result = "fail"}}

\* C25 witness: a failed batch of three files was retried file by file, two of the
\* three failed, and the strategy returned failure
C25_Witness ==
    /\ EngineReturned
    /\ calls[LastBatch].result = "fail"
    /\ Len(calls[LastBatch].files) = 3
    /\ Len(failedFiles) = 2
    /\ ~results[Len(results)].success

\* the subprocesses issued so far, in flight or exited
Issued == ({child} \ {NoChild}) \cup Range(calls)

\* C26: a staged path that no longer exists on disk is dropped: it is in no group
\* and is named in no subprocess, in flight or exited
C26_MissingFileDropped ==
    \A file \in Range(stagedFiles) :
        ~existsSync(file) =>
            /\ \A k \in 1..Len(projectFiles) : file \notin Range(projectFiles[k].files)
            /\ file \notin Range(workspaceFiles)
            /\ \A c \in Issued : file \notin Range(c.files)

\* no element occurs twice in the sequence
NoDuplicates(seq) ==
    \A i, j \in 1..Len(seq) : i # j => seq[i] # seq[j]

\* the per-file invocations issued so far, in flight or exited, in order
PerFileIssued ==
    LET exited == SelectSeq(calls, LAMBDA c : c.at = "file")
    IN  IF child.at = "file" THEN Append([i \in 1..Len(exited) |-> exited[i].files], child.files)
        ELSE [i \in 1..Len(exited) |-> exited[i].files]

\* C27: groups have set semantics: a path that occurs more than once in the input
\* is held once by its group, occurs once in the file list of every subprocess, in
\* flight or exited, and is retried once in a per-file retry
C27_GroupsAreSets ==
    /\ \A k \in 1..Len(projectFiles) : NoDuplicates(projectFiles[k].files)
    /\ NoDuplicates(workspaceFiles)
    /\ \A c \in Issued : NoDuplicates(c.files)
    /\ NoDuplicates(PerFileIssued)

\* the file:line:rule messages in a list of data events
Diagnostics(chunks) == SelectSeq(chunks, LAMBDA c : c.diag)

\* a failed lint subprocess closed and the script has written what it writes
FailedAndShown == variant = "output" /\ "shown" \in DOMAIN cout /\ cin.code # 0

\* C28: the file:line:rule messages of a failed lint subprocess reach the user as
\* the engine wrote them, those of its stdout and those of its stderr: none is
\* collected and dropped, none is embedded in a message of the script
C28_DiagnosticsPassedThrough ==
    FailedAndShown =>
        /\ Diagnostics(cout["shown"].out) = Diagnostics(cin.stdout)
        /\ Diagnostics(cout["shown"].err) = Diagnostics(cin.stderr)

\* the subprocesses issued so far in the order of their start, the one in flight
\* last with the result "running"
IssuedInOrder ==
    IF child = NoChild THEN calls
    ELSE Append(calls, [cmd |-> child.cmd, project |-> child.project, files |-> child.files,
                        fix |-> child.fix, at |-> child.at, result |-> "running"])

\* C29: nx lint <project> is issued only after the lint-target query of the same
\* project exited in the same run and reported a lint target; and no project has
\* more than one query or more than one nx lint in a run
C29_NativeOnlyAfterQuery ==
    LET issued == IssuedInOrder
    IN  /\ \A j \in 1..Len(issued) :
               issued[j].cmd = "nx lint" =>
                   \E i \in 1..(j - 1) :
                       /\ issued[i].cmd = "nx show project"
                       /\ issued[i].project = issued[j].project
                       /\ issued[i].result = "lint"
        /\ \A i, j \in 1..Len(issued) :
               ( /\ i # j
                 /\ issued[i].cmd \in {"nx show project", "nx lint"}
                 /\ issued[i].cmd = issued[j].cmd )
               => issued[i].project # issued[j].project

\* how many of the subprocesses issued so far, in flight or exited, were issued at
\* the place `at` for the project
IssuedFor(project, at) ==
    Cardinality({i \in 1..Len(IssuedInOrder) :
                    IssuedInOrder[i].at = at /\ IssuedInOrder[i].project = project})

\* the file lists of the project groups
ProjectGroupFiles == {projectFiles[k].files : k \in 1..Len(projectFiles)}

\* how many eslint invocations were issued at the place `at` on files of the list
EngineIssuedOn(files, at) ==
    Cardinality({i \in 1..Len(IssuedInOrder) :
                    /\ IssuedInOrder[i].cmd = "eslint" /\ IssuedInOrder[i].at = at
                    /\ IF at = "batch" THEN IssuedInOrder[i].files = files
                       ELSE Range(IssuedInOrder[i].files) \subseteq Range(files)})

\* how many eslint invocations were issued at the place `at` on files of no project
\* group
EngineIssuedOnRoot(at) ==
    Cardinality({i \in 1..Len(IssuedInOrder) :
                    /\ IssuedInOrder[i].cmd = "eslint" /\ IssuedInOrder[i].at = at
                    /\ \A files \in ProjectGroupFiles :
                           IF at = "batch" THEN IssuedInOrder[i].files # files
                           ELSE ~(Range(IssuedInOrder[i].files) \subseteq Range(files))})

\* the files of the run that are in no project group
RootFiles ==
    SelectSeq(stagedFiles,
              LAMBDA file : Accepted(file) /\
                            \A files \in ProjectGroupFiles : file \notin Range(files))

\* C30, the counts: a project group of n files has at most one lint-target query,
\* one nx lint, one batch eslint and n per-file eslint invocations; the
\* workspace-root group of m files at most one batch and m per-file invocations;
\* and the exit code of a run that ended is 0 or 1
C30_BoundedInvocations ==
    /\ \A k \in 1..Len(projectFiles) :
           /\ IssuedFor(projectFiles[k].project, "query") <= 1
           /\ IssuedFor(projectFiles[k].project, "native") <= 1
           /\ EngineIssuedOn(projectFiles[k].files, "batch") <= 1
           /\ EngineIssuedOn(projectFiles[k].files, "file") <= Len(projectFiles[k].files)
    /\ EngineIssuedOnRoot("batch") <= 1
    /\ EngineIssuedOnRoot("file") <= Len(RootFiles)
    /\ Done => exitCode \in {0, 1}

\* C30: when every subprocess that is started exits or fails to start, every run
\* comes to its exit, exits once with code 0 or 1 and does nothing after it, and
\* stays within the counts of invocations per group
C30_TerminatesWithinBounds ==
    /\ <>Done
    /\ [](C30_BoundedInvocations)
    /\ [][~Done]_vars

\* C30 witness: a run over a project group of two files and the workspace-root
\* group ended with exit code 1 after the query, the nx lint, the batch and both
\* per-file invocations of the project group
C30_Witness ==
    /\ Done /\ exitCode = 1
    /\ variant = "nxjs"
    /\ Len(workspaceFiles) > 0
    /\ \E k \in 1..Len(projectFiles) :
           /\ Len(projectFiles[k].files) = 2
           /\ projectFiles[k].files[1] # projectFiles[k].files[2]
           /\ IssuedFor(projectFiles[k].project, "query") = 1
           /\ IssuedFor(projectFiles[k].project, "native") = 1
           /\ EngineIssuedOn(projectFiles[k].files, "batch") = 1
           /\ EngineIssuedOn(projectFiles[k].files, "file") = 2

====
